---- MODULE Spec2Model ----
(***************************************************************************)
(* A model of the SVG art grid generator (SVGArtGridV2.py, and the parts   *)
(* it shares with SVG_ArtGrid.py).                                         *)
(*                                                                         *)
(* One run of main() is a record holding main's locals, the random source  *)
(* and the svgwrite drawing.  `run` is the run under study; `twin` is a    *)
(* second run of the same command line, used by SpecTwin only; `call` is   *)
(* a stand-alone call of get_two_colors, used by SpecTwoColors only.       *)
(*                                                                         *)
(* Every operation of the program is an operator from a run record to the  *)
(* SET of run records it can produce, one per outcome of its random draws. *)
(* An exception leaves the run in pc = "aborted" with the exception name.  *)
(*                                                                         *)
(* The drawing keeps, for every top-level element, its tag and bounding    *)
(* box (dwg.elements) and every definition (dwg.defs).  The colours, class *)
(* and sub-variant of a block are kept in `group` for the block drawn by   *)
(* the latest step: no code reads an element back once it is added.        *)
(*                                                                         *)
(* Inputs left out: --rows/--cols absent (a grid of 8..16 squares a side), *)
(* and unreadable palette or image files.                                  *)
(***************************************************************************)
EXTENDS Integers, Sequences, FiniteSets, TLC

VARIABLES run, twin, call

vars == <<run, twin, call>>

None == "None"

\* an absent optional value is << >>, a present one <<v>>
Absent == << >>
Given(v) == <<v>>

(***************************************************************************)
(* Bounds of the model.                                                    *)
(***************************************************************************)
MaxRows == 3
MaxCols == 3
MaxSquareSize == 2
MaxIndex == 5
NumGlyphs == 2

(***************************************************************************)
(* Colours: RGB triples, channels 0..255 (hex strings in the source).      *)
(***************************************************************************)
Red == <<255, 0, 0>>
Green == <<0, 255, 0>>
Blue == <<0, 0, 255>>

\* The palette catalogue read by load_color_palettes: a list of palettes.
Catalogue == << <<Red, Green>>, <<Red, Red, Blue>>, <<Red>>, << >> >>

Min(a, b) == IF a < b THEN a ELSE b

(***************************************************************************)
(* The process-wide random source.  A call's outcome is any value of its   *)
(* range; a call on an empty range raises.  Each call is logged as         *)
(* [fn, lo, hi, out] so that two runs reading the same stream at the same  *)
(* position with the same call can be given the same outcome.              *)
(***************************************************************************)
\* random.randint(lo, hi): the outcomes lo..hi (empty: ValueError)
randint(lo, hi) == lo .. hi

\* random.choice(seq): the positions of seq, 1-based (empty: IndexError)
choice(seq) == 1 .. Len(seq)

\* random.random(): a float in [0, 1), in tenths; one representative of
\* each interval cut by the thresholds 0.3 and 0.5 the program compares with
random_random == {0, 3, 5}

Call(fn, lo, hi, out) == [fn |-> fn, lo |-> lo, hi |-> hi, out |-> out]

\* list.pop(index) on a copy, 1-based
pop(list, index) == [k \in 1 .. (Len(list) - 1) |->
                        IF k < index THEN list[k] ELSE list[k + 1]]

(***************************************************************************)
(* get_two_colors: the set of results, [err, foreground, background,       *)
(* draws, color_palette], color_palette being the caller's list after the  *)
(* call.                                                                   *)
(***************************************************************************)
Raised(name, draws) ==
    [err |-> name, foreground |-> << >>, background |-> << >>,
     draws |-> draws, color_palette |-> << >>]

\* (variant: the chosen colour is not removed)
remaining_colors_kept(color_palette, color_index) == color_palette

\* the list the foreground is drawn from, once background color_index is out
remaining_colors(color_palette, color_index) == pop(color_palette, color_index)

\* (variant: color_list = color_palette, the same list object)
caller_list_aliased(color_palette, color_list) == color_list

\* color_list = color_palette.copy(): what is popped from color_list stays
\* in the caller's list
caller_list(color_palette, color_list) == color_palette

get_two_colors(color_palette) ==
    IF randint(0, Len(color_palette) - 1) = {}
    THEN {Raised("ValueError", << >>)}
    ELSE UNION {
        LET color_list == remaining_colors(color_palette, color_index + 1)
            background == color_palette[color_index + 1]
            d1 == Call("randint", 0, Len(color_palette) - 1, color_index)
        IN  IF choice(color_list) = {}
            THEN {Raised("IndexError", <<d1>>)}
            ELSE {[err |-> None,
                   foreground |-> color_list[f],
                   background |-> background,
                   draws |-> <<d1, Call("choice", 1, Len(color_list), f)>>,
                   color_palette |-> caller_list(color_palette, color_list)]
                  : f \in choice(color_list)}
        : color_index \in randint(0, Len(color_palette) - 1)}

(***************************************************************************)
(* The eight block styles.  Each returns the set of blocks it can draw:    *)
(* [group, masks, draws], group being the <g> element added to the drawing *)
(* and masks the definitions added to dwg.defs.                            *)
(***************************************************************************)
\* Lengths of primitives are in 1/Unit of a pixel, so that size/2, size/3,
\* size/4, size/6, 0.3*size/n and 0.8*size are integers.
Unit == 120

\* a primitive: geom are its coordinates and lengths, irr the multiples of
\* sqrt(2) to add to each of them, attr its mask or its text
Prim(shape, fill, geom, irr, attr) ==
    [shape |-> shape, fill |-> fill, geom |-> geom, irr |-> irr,
     attr |-> attr]

\* dwg.rect((x, y), (w, h), fill=...)
rect(x, y, w, h, fill) == Prim("rect", fill, <<x, y, w, h>>, << >>, << >>)

\* dwg.circle(center=(cx, cy), r=r, fill=...), possibly in a masked group
circle(cx, cy, r, fill, attr) ==
    Prim("circle", fill, <<cx, cy, r>>, << >>, attr)

\* dwg.polygon(points, fill=...) on points with rational coordinates
polygon(points, fill) == Prim("polygon", fill, points, << >>, << >>)

\* group.add(dwg.rect((x, y), (square_size, square_size), fill=background))
background_rect(x, y, square_size, background) ==
    rect(Unit * x, Unit * y, Unit * square_size, Unit * square_size,
         background)

Group(class, x, y, square_size, foreground, background, variant, prims) ==
    [class |-> class, x |-> x, y |-> y, size |-> square_size,
     foreground |-> foreground, background |-> background,
     variant |-> variant, prims |-> prims]

Block(group, masks, draws) ==
    [group |-> group, masks |-> masks, draws |-> draws]

\* (variant: the diameter is passed as the radius)
circle_radius_full(square_size) == Unit * square_size

\* r = square_size / 2
circle_radius(square_size) == (Unit \div 2) * square_size

draw_circle(x, y, square_size, foreground, background) ==
    LET cx == Unit * x + (Unit \div 2) * square_size
        cy == Unit * y + (Unit \div 2) * square_size
        base == <<background_rect(x, y, square_size, background),
                  circle(cx, cy, circle_radius(square_size), foreground,
                         << >>)>>
        inner == circle(cx, cy, (Unit \div 4) * square_size, background,
                        << >>)
    IN  {Block(Group("draw-circle", x, y, square_size, foreground,
                     background,
                     IF r < 3 THEN "inner-circle" ELSE "plain",
                     IF r < 3 THEN Append(base, inner) ELSE base),
               << >>, <<Call("random", 0, 1, r)>>)
         : r \in random_random}

\* the id of the mask of an opposite-circles block
mask_id(x, y) == <<"mask", x, y>>

draw_opposite_circles(x, y, square_size, foreground, background) ==
    LET options == << <<0, 0, square_size, square_size>>,
                      <<square_size, 0, 0, square_size>> >>
        names == <<"top-left+bottom-right", "top-right+bottom-left">>
        circles(offset) ==
            <<circle(Unit * (x + offset[1]), Unit * (y + offset[2]),
                     (Unit \div 2) * square_size, foreground, mask_id(x, y)),
              circle(Unit * (x + offset[3]), Unit * (y + offset[4]),
                     (Unit \div 2) * square_size, foreground, mask_id(x, y))>>
    IN  {Block(Group("opposite-circles", x, y, square_size, foreground,
                     background, names[o],
                     <<background_rect(x, y, square_size, background)>>
                     \o circles(options[o])),
               <<[id |-> mask_id(x, y), x |-> x, y |-> y,
                  size |-> square_size]>>,
               <<Call("choice", 1, Len(options), o)>>)
         : o \in choice(options)}

\* (variant: the bars are drawn in the background colour)
bar_fill_background(foreground, background) == background

\* the fill of the bars of a cross
bar_fill(foreground, background) == foreground

\* the polygon of the thick line from (x1, y1) to (x2, y2), of width
\* square_size / 6, for a line at 45 degrees: length = |dx| * sqrt(2), so
\* nx * width / 2 = -dy * sqrt(2) / 24 and ny * width / 2 = dx * sqrt(2) / 24
thick_line(x1, y1, x2, y2, fill) ==
    LET dx == x2 - x1
        dy == y2 - y1
        ox == -(Unit \div 24) * dy
        oy == (Unit \div 24) * dx
    IN  Prim("polygon", fill,
             <<Unit * x1, Unit * y1, Unit * x2, Unit * y2,
               Unit * x2, Unit * y2, Unit * x1, Unit * y1>>,
             <<ox, oy, ox, oy, -ox, -oy, -ox, -oy>>, << >>)

draw_cross(x, y, square_size, foreground, background) ==
    LET fill == bar_fill(foreground, background)
        plus == <<rect(Unit * x, Unit * y + (Unit \div 3) * square_size,
                       Unit * square_size, (Unit \div 3) * square_size,
                       fill),
                  rect(Unit * x + (Unit \div 3) * square_size, Unit * y,
                       (Unit \div 3) * square_size, Unit * square_size,
                       fill)>>
        cross == <<thick_line(x, y, x + square_size, y + square_size, fill),
                   thick_line(x + square_size, y, x, y + square_size, fill)>>
    IN  {Block(Group("draw-cross", x, y, square_size, foreground, background,
                     IF r < 5 THEN "plus" ELSE "x",
                     <<background_rect(x, y, square_size, background)>>
                     \o (IF r < 5 THEN plus ELSE cross)),
               << >>, <<Call("random", 0, 1, r)>>)
         : r \in random_random}

draw_half_square(x, y, square_size, foreground, background) ==
    LET directions == <<"top", "right", "bottom", "left">>
        x0 == Unit * x
        y0 == Unit * y
        full == Unit * square_size
        half == (Unit \div 2) * square_size
        points(direction) ==
            CASE direction = "top" ->
                    <<x0, y0, x0 + full, y0, x0 + full, y0 + half,
                      x0, y0 + half>>
              [] direction = "right" ->
                    <<x0 + half, y0, x0 + full, y0, x0 + full, y0 + full,
                      x0 + half, y0 + full>>
              [] direction = "bottom" ->
                    <<x0, y0 + half, x0 + full, y0 + half,
                      x0 + full, y0 + full, x0, y0 + full>>
              [] OTHER ->
                    <<x0, y0, x0 + half, y0, x0 + half, y0 + full,
                      x0, y0 + full>>
    IN  {Block(Group("draw-half-square", x, y, square_size, foreground,
                     background, directions[d],
                     <<background_rect(x, y, square_size, background),
                       polygon(points(directions[d]), foreground)>>),
               << >>, <<Call("choice", 1, Len(directions), d)>>)
         : d \in choice(directions)}

\* the triangle of draw_diagonal_square, by is_top_left_to_bottom_right
diagonal_points(x, y, square_size, is_top_left_to_bottom_right) ==
    IF is_top_left_to_bottom_right
    THEN <<Unit * x, Unit * y,
           Unit * (x + square_size), Unit * (y + square_size),
           Unit * x, Unit * (y + square_size)>>
    ELSE <<Unit * (x + square_size), Unit * y,
           Unit * (x + square_size), Unit * (y + square_size),
           Unit * x, Unit * y>>

draw_diagonal_square(x, y, square_size, foreground, background) ==
    {Block(Group("draw-diagonal-square", x, y, square_size, foreground,
                 background,
                 IF r < 5 THEN "top-left-to-bottom-right" ELSE "other",
                 <<background_rect(x, y, square_size, background),
                   polygon(diagonal_points(x, y, square_size, r < 5),
                           foreground)>>),
           << >>, <<Call("random", 0, 1, r)>>)
     : r \in random_random}

\* the path of draw_quarter_circle: "M mx my", "A r r 0 0 1 ex ey",
\* "L lx ly", as <<mx, my, rx, ry, rotation, large-arc, sweep, ex, ey, lx, ly>>
quarter_path(x, y, square_size, corner) ==
    LET x0 == Unit * x
        y0 == Unit * y
        x1 == Unit * (x + square_size)
        y1 == Unit * (y + square_size)
        r == Unit * square_size
    IN  CASE corner = "top-left" ->
                <<x0, y0, r, r, 0, 0, 1, x1, y0, x0, y0>>
          [] corner = "top-right" ->
                <<x1, y0, r, r, 0, 0, 1, x1, y1, x1, y0>>
          [] corner = "bottom-right" ->
                <<x1, y1, r, r, 0, 0, 1, x0, y1, x1, y1>>
          [] OTHER ->
                <<x0, y1, r, r, 0, 0, 1, x0, y0, x0, y1>>

draw_quarter_circle(x, y, square_size, foreground, background) ==
    LET corners == <<"top-left", "top-right", "bottom-right", "bottom-left">>
    IN  {Block(Group("draw-quarter-circle", x, y, square_size, foreground,
                     background, corners[c],
                     <<background_rect(x, y, square_size, background),
                       Prim("path", foreground,
                            quarter_path(x, y, square_size, corners[c]),
                            << >>, << >>)>>),
               << >>, <<Call("choice", 1, Len(corners), c)>>)
         : c \in choice(corners)}

\* the rows x rows circles of draw_dots, i outer and j inner:
\* cell_size = square_size / rows, dot_radius = 0.3 * cell_size, centre
\* (x + (i + 0.5) * cell_size, y + (j + 0.5) * cell_size)
dots(x, y, square_size, rows, foreground) ==
    [k \in 1 .. rows * rows |->
        LET i == (k - 1) \div rows
            j == (k - 1) % rows
            half_cell == (Unit \div (2 * rows)) * square_size
        IN  circle(Unit * x + (2 * i + 1) * half_cell,
                   Unit * y + (2 * j + 1) * half_cell,
                   ((3 * Unit) \div (10 * rows)) * square_size,
                   foreground, << >>)]

draw_dots(x, y, square_size, foreground, background) ==
    LET counts == <<"4", "9", "16">>
        rows == <<2, 3, 4>>
    IN  {Block(Group("draw-dots", x, y, square_size, foreground, background,
                     counts[n],
                     <<background_rect(x, y, square_size, background)>>
                     \o dots(x, y, square_size, rows[n], foreground)),
               << >>, <<Call("choice", 1, Len(counts), n)>>)
         : n \in choice(counts)}

\* the 46 glyphs of draw_letter_block
characters ==
    <<"A", "B", "C", "D", "E", "F", "G", "H", "I", "J", "K", "L", "M",
      "N", "O", "P", "Q", "R", "S", "T", "U", "V", "W", "X", "Y", "Z",
      "0", "1", "2", "3", "4", "5", "6", "7", "8", "9",
      "+", "-", "*", "/", "=", "#", "@", "&", "%", "$">>

\* dwg.text(character, insert=(x + size/2, y + size/2 + size*0.3),
\* font_size=size*0.8, ...), as <<insert x, insert y, font size>>
text(x, y, square_size, character, fill) ==
    Prim("text", fill,
         <<Unit * x + (Unit \div 2) * square_size,
           Unit * y + ((8 * Unit) \div 10) * square_size,
           ((8 * Unit) \div 10) * square_size>>,
         << >>, <<"text", character>>)

\* the first NumGlyphs outcomes of random.choice(characters) are explored
draw_letter_block(x, y, square_size, foreground, background) ==
    {Block(Group("draw-letter-block", x, y, square_size, foreground,
                 background, characters[c],
                 <<background_rect(x, y, square_size, background),
                   text(x, y, square_size, characters[c], foreground)>>),
           << >>, <<Call("choice", 1, Len(characters), c)>>)
     : c \in {k \in choice(characters) : k <= NumGlyphs}}

(***************************************************************************)
(* Style selection.                                                        *)
(***************************************************************************)
\* the keys of style_map in generate_little_block / generate_composition_grid
style_map ==
    <<"circle", "opposite_circles", "cross", "half_square",
      "diagonal_square", "quarter_circle", "dots", "letter_block">>

\* main: all_styles, the default of --block-styles
all_styles ==
    <<"circle", "opposite_circles", "cross", "half_square",
      "diagonal_square", "quarter_circle", "dots", "letter_block">>

\* the keys of style_map in generate_big_block: no 'dots'
big_style_map ==
    <<"circle", "opposite_circles", "cross", "half_square",
      "diagonal_square", "quarter_circle", "letter_block">>

Range(seq) == {seq[k] : k \in 1 .. Len(seq)}

in_style_map(style) == style \in Range(style_map)

\* (variant: the focal block filters on the registry of the grid cells)
in_big_style_map_with_dots(style) == style \in Range(style_map)

in_big_style_map(style) == style \in Range(big_style_map) /\ style # "dots"

\* (variant: the allow-list is not applied)
available_styles_unfiltered(block_styles) == style_map

available_styles(block_styles) ==
    LET filtered == SelectSeq(block_styles, in_style_map)
    IN  IF filtered = << >> THEN style_map ELSE filtered

big_available_styles(block_styles) ==
    LET filtered == SelectSeq(block_styles, in_big_style_map)
    IN  IF filtered = << >>
        THEN SelectSeq(big_style_map, LAMBDA st : st # "dots")
        ELSE filtered

\* style_func(dwg, x, y, size, foreground, background) for a style name
style_func(style_name, x, y, square_size, foreground, background) ==
    CASE style_name = "circle" ->
            draw_circle(x, y, square_size, foreground, background)
      [] style_name = "opposite_circles" ->
            draw_opposite_circles(x, y, square_size, foreground, background)
      [] style_name = "cross" ->
            draw_cross(x, y, square_size, foreground, background)
      [] style_name = "half_square" ->
            draw_half_square(x, y, square_size, foreground, background)
      [] style_name = "diagonal_square" ->
            draw_diagonal_square(x, y, square_size, foreground, background)
      [] style_name = "quarter_circle" ->
            draw_quarter_circle(x, y, square_size, foreground, background)
      [] style_name = "dots" ->
            draw_dots(x, y, square_size, foreground, background)
      [] style_name = "letter_block" ->
            draw_letter_block(x, y, square_size, foreground, background)

\* random.choice(available) followed by the style's own draws
styled_blocks(available, x, y, square_size, foreground, background) ==
    UNION {
        {Block(b.group, b.masks,
               <<Call("choice", 1, Len(available), st)>> \o b.draws)
         : b \in style_func(available[st], x, y, square_size,
                            foreground, background)}
        : st \in choice(available)}

(***************************************************************************)
(* The input image, as the clustering (sklearn KMeans, random_state=42)    *)
(* sees it: cluster centres with channels in tenths.                       *)
(***************************************************************************)
DarkCentre == <<109, 205, 300>>
LightCentre == <<2000, 2105, 2209>>
GreyCentre == <<1280, 1280, 1280>>

\* the two cluster centres of the region of the resized image at (x, y)
kmeans_region(x, y, square_size) ==
    LET k == ((x \div square_size) + (y \div square_size)) % 3
    IN  CASE k = 0 -> <<DarkCentre, LightCentre>>
          [] k = 1 -> <<LightCentre, DarkCentre>>
          [] k = 2 -> <<GreyCentre, GreyCentre>>

\* the color_count cluster centres of the whole image
kmeans_image(color_count) ==
    SubSeq(<<LightCentre, DarkCentre, GreyCentre>>, 1, Min(color_count, 3))

\* (variant: round(c), halves up)
to_int_rounded(c) == (c + 5) \div 10

\* [int(c) for c in color]: truncation of a non-negative float
to_int(c) == c \div 10

to_hex(centre) == <<to_int(centre[1]), to_int(centre[2]), to_int(centre[3])>>

\* 0.299*R + 0.587*G + 0.114*B of the float centre, times 10000
brightness(centre) == 299 * centre[1] + 587 * centre[2] + 114 * centre[3]

\* hex strings of equal length compare as their channel triples do
hex_le(h1, h2) ==
    \/ h1[1] < h2[1]
    \/ h1[1] = h2[1] /\ h1[2] < h2[2]
    \/ h1[1] = h2[1] /\ h1[2] = h2[2] /\ h1[3] <= h2[3]

\* extract_palette_from_image from the cluster centres on: one hex
\* colour per centre, in the order of the centres
hex_colors(colors) == [k \in 1 .. Len(colors) |-> to_hex(colors[k])]

extract_palette_from_image(color_count) ==
    hex_colors(kmeans_image(color_count))

\* (variant: sorted(zip(hex_colors, brightness)), the hex string first)
region_colors_by_hex(colors) ==
    LET h1 == to_hex(colors[1])
        h2 == to_hex(colors[2])
        b1 == brightness(colors[1])
        b2 == brightness(colors[2])
        sorted_colors == IF (h1 # h2 /\ hex_le(h1, h2))
                            \/ (h1 = h2 /\ b1 <= b2)
                         THEN <<h1, h2>> ELSE <<h2, h1>>
    IN  [foreground |-> sorted_colors[1], background |-> sorted_colors[2]]

\* sample_image_region from the two cluster centres on:
\* sorted(zip(brightness, hex_colors)), first to foreground, last to
\* background
region_colors(colors) ==
    LET h1 == to_hex(colors[1])
        h2 == to_hex(colors[2])
        b1 == brightness(colors[1])
        b2 == brightness(colors[2])
        sorted_colors == IF b1 < b2 \/ (b1 = b2 /\ hex_le(h1, h2))
                         THEN <<h1, h2>> ELSE <<h2, h1>>
    IN  [foreground |-> sorted_colors[1], background |-> sorted_colors[2]]

sample_image_region(x, y, square_size) ==
    region_colors(kmeans_region(x, y, square_size))

(***************************************************************************)
(* A run of main().                                                        *)
(***************************************************************************)
NoGroup == Group("none", 0, 0, 0, << >>, << >>, "none", << >>)

\* no image opened
NoImage == [width |-> 0, height |-> 0]

NoDrawing == [width |-> 0, height |-> 0, style |-> "none",
              gradient |-> << >>, masks |-> << >>, elements |-> << >>]

\* the run of command line args whose unseeded random source is `entropy`
NewRun(args, entropy) ==
    [args |-> args, pc |-> "start", err |-> None,
     rng |-> [stream |-> <<"os", entropy>>, pos |-> 0], draws |-> << >>,
     num_rows |-> 0, num_cols |-> 0, square_size |-> 0,
     color_palette |-> << >>, block_styles |-> << >>,
     dwg |-> NoDrawing, group |-> NoGroup, i |-> 0, j |-> 0,
     img |-> NoImage, region |-> << >>,
     big_block_size |-> 0, big_blocks |-> 0, saved |-> FALSE]

\* the effect of `draws` on the random source
Consumed(s, draws) ==
    [s EXCEPT !.draws = draws, !.rng.pos = @ + Len(draws)]

\* (variant: the document is written on the way out)
Abort_saving(s, name, draws) ==
    [Consumed(s, draws) EXCEPT !.pc = "aborted", !.err = name,
                               !.saved = TRUE]

\* an uncaught exception ends the process
Abort(s, name, draws) ==
    [Consumed(s, draws) EXCEPT !.pc = "aborted", !.err = name]

composition_mode(args) == args.image /\ args.mode = "composition"

\* (variant: the seed is ignored)
seeded_rng_ignored(rng, seed) == rng

\* random.seed(args.seed) when a seed is given
seeded_rng(rng, seed) ==
    IF seed # Absent THEN [stream |-> <<"seed", seed[1]>>, pos |-> 0]
    ELSE rng

\* main, up to square_size = args.square_size
parse_and_seed(s) ==
    {[Consumed(s, << >>) EXCEPT
        !.rng = seeded_rng(s.rng, s.args.seed),
        !.num_rows = s.args.rows,
        !.num_cols = s.args.cols,
        !.square_size = s.args.square_size,
        !.pc = "select_palette"]}

\* palettes[palette_idx] of a Python list: negative indices count from the
\* end, anything outside -len .. len-1 raises IndexError
list_index_ok(list, idx) == -Len(list) <= idx /\ idx < Len(list)

list_get(list, idx) == IF idx >= 0 THEN list[idx + 1]
                       ELSE list[Len(list) + idx + 1]

\* main: "Load color palettes based on input mode"
select_palette(s) ==
    IF s.args.image /\ s.args.mode = "palette"
    THEN {[Consumed(s, << >>) EXCEPT
            !.color_palette = extract_palette_from_image(s.args.color_count),
            !.pc = "create_svg"]}
    ELSE LET palettes == s.args.palettes
             picked(idx, draws) ==
                IF list_index_ok(palettes, idx)
                THEN [Consumed(s, draws) EXCEPT
                        !.color_palette = list_get(palettes, idx),
                        !.pc = "create_svg"]
                ELSE Abort(s, "IndexError", draws)
         IN  IF s.args.palette_index # Absent
             THEN {picked(s.args.palette_index[1], << >>)}
             ELSE IF randint(0, Len(palettes) - 1) = {}
             THEN {Abort(s, "ValueError", << >>)}
             ELSE {picked(idx, <<Call("randint", 0, Len(palettes) - 1, idx)>>)
                   : idx \in randint(0, Len(palettes) - 1)}

\* (variant: width along the columns, height along the rows)
svg_size_swapped(num_rows, num_cols, square_size) ==
    [width |-> num_cols * square_size, height |-> num_rows * square_size]

\* the declared size of the document
svg_size(num_rows, num_cols, square_size) ==
    [width |-> num_rows * square_size, height |-> num_cols * square_size]

\* main: block styles, svgwrite.Drawing(...), the crispEdges style
create_svg(s) ==
    LET size == svg_size(s.num_rows, s.num_cols, s.square_size)
    IN  {[Consumed(s, << >>) EXCEPT
            !.block_styles = IF s.args.block_styles # << >>
                             THEN s.args.block_styles ELSE all_styles,
            !.dwg = [NoDrawing EXCEPT !.width = size.width,
                                      !.height = size.height,
                                      !.style = "crispEdges"],
            !.pc = "background"]}

\* (variant: a blend weighted towards the first colour)
mix_weighted(c1, c2) == [k \in 1 .. 3 |-> (2 * c1[k] + c2[k]) \div 3]

\* (c1 + c2) // 2 on each channel
mix(c1, c2) == [k \in 1 .. 3 |-> (c1[k] + c2[k]) \div 2]

\* create_background_colors up to the 50% blend; the gradient's two stops
\* are this colour desaturated, then lightened and darkened
create_background_colors(color_palette) ==
    IF Len(color_palette) < 2
    THEN [err |-> "IndexError", bg |-> << >>]
    ELSE [err |-> None, bg |-> mix(color_palette[1], color_palette[2])]

Element(tag, x, y, width, height) ==
    [tag |-> tag, x |-> x, y |-> y, width |-> width, height |-> height]

\* main: "Add background"
add_background(s) ==
    LET bg_colors == create_background_colors(s.color_palette)
    IN  IF bg_colors.err # None
        THEN {Abort(s, bg_colors.err, << >>)}
        ELSE {[Consumed(s, << >>) EXCEPT
                !.dwg.gradient = bg_colors.bg,
                !.dwg.elements =
                    Append(@, Element("rect", 0, 0, s.dwg.width,
                                      s.dwg.height)),
                !.pc = IF s.num_rows * s.num_cols > 0 THEN "grid"
                       ELSE "big_block"]}

\* (variant: the group is inserted below the elements drawn so far)
Drawn_below(s, b, draws) ==
    [Consumed(s, draws) EXCEPT
        !.dwg.masks = @ \o b.masks,
        !.dwg.elements = <<Element("g", b.group.x, b.group.y,
                                   b.group.size, b.group.size)>> \o @,
        !.group = b.group]

\* dwg.defs.add(mask) and dwg.add(group) of a draw_* function
\* (variant: the block takes the place of the last element)
Drawn_replacing(s, b, draws) ==
    [Consumed(s, draws) EXCEPT
        !.dwg.masks = @ \o b.masks,
        !.dwg.elements =
            IF Len(@) > 1
            THEN Append(SubSeq(@, 1, Len(@) - 1),
                        Element("g", b.group.x, b.group.y, b.group.size,
                                b.group.size))
            ELSE Append(@, Element("g", b.group.x, b.group.y, b.group.size,
                                   b.group.size)),
        !.group = b.group]

Drawn(s, b, draws) ==
    [Consumed(s, draws) EXCEPT
        !.dwg.masks = @ \o b.masks,
        !.dwg.elements = Append(@, Element("g", b.group.x, b.group.y,
                                           b.group.size, b.group.size)),
        !.group = b.group]

\* for i in range(num_rows): for j in range(num_cols): the next (i, j)
NextCell(s) ==
    IF s.j + 1 < s.num_cols THEN [s EXCEPT !.j = @ + 1]
    ELSE IF s.i + 1 < s.num_rows THEN [s EXCEPT !.i = @ + 1, !.j = 0]
    ELSE [s EXCEPT !.pc = "big_block"]

\* (variant: positions counted from 1)
cell_pos_one_based(i, square_size) == (i + 1) * square_size

\* x_pos = i * square_size, y_pos = j * square_size
cell_pos(i, square_size) == i * square_size

\* generate_grid: one iteration, generate_little_block(dwg, i, j, ...)
generate_little_block(s) ==
    UNION {
        IF colors.err # None
        THEN {Abort(s, colors.err, colors.draws)}
        ELSE {NextCell(Drawn([s EXCEPT
                                  !.color_palette = colors.color_palette],
                             b, colors.draws \o b.draws))
              : b \in styled_blocks(available_styles(s.block_styles),
                                    cell_pos(s.i, s.square_size),
                                    cell_pos(s.j, s.square_size),
                                    s.square_size,
                                    colors.foreground, colors.background)}
        : colors \in get_two_colors(s.color_palette)}

\* img.resize((width, height)): the size of the result
resize(width, height) == [width |-> width, height |-> height]

\* image.crop((x, y, x + width, y + height)): the box (left, upper, right,
\* lower)
crop(x, y, width, height) == <<x, y, x + width, y + height>>

\* generate_composition_grid: one iteration of its loop, on the image
\* resized before the loop
generate_composition_block(s) ==
    LET x_pos == cell_pos(s.i, s.square_size)
        y_pos == cell_pos(s.j, s.square_size)
        colors == sample_image_region(x_pos, y_pos, s.square_size)
    IN  {NextCell([Drawn(s, b, b.draws) EXCEPT
                      !.img = resize(s.num_rows * s.square_size,
                                     s.num_cols * s.square_size),
                      !.region = crop(x_pos, y_pos, s.square_size,
                                      s.square_size)])
         : b \in styled_blocks(available_styles(s.block_styles),
                               x_pos, y_pos, s.square_size,
                               colors.foreground, colors.background)}

\* (variant: any cell of the grid)
big_block_cells_any(num, multiplier) == randint(0, num - 1)

\* (variant: the range is clamped to cell 0 on a grid that is too small)
big_block_cells_clamped(num, multiplier) ==
    randint(0, IF num > multiplier THEN num - multiplier ELSE 0)

\* the cells the focal block's top-left corner is drawn from, along one axis
big_block_cells(num, multiplier) == randint(0, num - multiplier)

\* generate_big_block(dwg, num_rows, num_cols, ..., multiplier); size_draws
\* are the draws main made for the multiplier
generate_big_block(s, multiplier, size_draws) ==
    UNION {
        IF colors.err # None
        THEN {Abort(s, colors.err, size_draws \o colors.draws)}
        ELSE IF big_block_cells(s.num_rows, multiplier) = {}
        THEN {Abort(s, "ValueError", size_draws \o colors.draws)}
        ELSE UNION {
            LET x_draw == Call("randint", 0, s.num_rows - multiplier, px)
            IN  IF big_block_cells(s.num_cols, multiplier) = {}
                THEN {Abort(s, "ValueError",
                            size_draws \o colors.draws \o <<x_draw>>)}
                ELSE UNION {
                    {[Drawn([s EXCEPT
                                !.color_palette = colors.color_palette],
                            b,
                            size_draws \o colors.draws
                            \o <<x_draw,
                                 Call("randint", 0, s.num_cols - multiplier,
                                      py)>>
                            \o b.draws)
                        EXCEPT !.big_blocks = @ + 1, !.pc = "save"]
                     : b \in styled_blocks(
                                big_available_styles(s.block_styles),
                                px * s.square_size, py * s.square_size,
                                multiplier * s.square_size,
                                colors.foreground, colors.background)}
                    : py \in big_block_cells(s.num_cols, multiplier)}
            : px \in big_block_cells(s.num_rows, multiplier)}
        : colors \in get_two_colors(s.color_palette)}

\* (variant: the flag alone decides)
wants_big_block_always(args) == args.big_block

\* main: "if args.big_block and not (args.image and args.mode == ...)"
wants_big_block(args) == args.big_block /\ ~composition_mode(args)

\* main: "Add big block if enabled"
add_big_block(s) ==
    IF s.args.big_block_size # Absent
    THEN generate_big_block(
            [s EXCEPT !.big_block_size = s.args.big_block_size[1]],
            s.args.big_block_size[1], << >>)
    ELSE UNION {generate_big_block(
                    [s EXCEPT !.big_block_size = <<2, 3>>[m]],
                    <<2, 3>>[m], <<Call("choice", 1, 2, m)>>)
                : m \in choice(<<2, 3>>)}

skip_big_block(s) == {[Consumed(s, << >>) EXCEPT !.pc = "save"]}

\* main: dwg.save()
save(s) == {[Consumed(s, << >>) EXCEPT !.saved = TRUE, !.pc = "done"]}

(***************************************************************************)
(* Command lines.  Each family varies some of the options of BaseArgs.     *)
(***************************************************************************)
BaseArgs ==
    [rows |-> 2, cols |-> 2, square_size |-> 1, seed |-> Absent,
     palettes |-> Catalogue, palette_index |-> Given(0),
     big_block |-> TRUE, big_block_size |-> Absent,
     block_styles |-> <<"circle">>, image |-> FALSE, mode |-> None,
     color_count |-> 2]

BigBlockSizes == {Absent, Given(2), Given(3)}

\* grids, focal block options, palette mode or image composition
GridArgs ==
    {[BaseArgs EXCEPT !.rows = r, !.cols = c, !.square_size = z,
                      !.big_block = bb, !.big_block_size = m,
                      !.image = im,
                      !.mode = IF im THEN "composition" ELSE None]
     : r \in 1 .. MaxRows, c \in 1 .. MaxCols, z \in 1 .. MaxSquareSize,
       bb \in BOOLEAN, m \in BigBlockSizes, im \in BOOLEAN}

PaletteIndexes == {Absent} \cup {Given(k) : k \in (-MaxIndex) .. MaxIndex}

\* palette sources: catalogue and index, or extraction from the image
PaletteArgs ==
    {[BaseArgs EXCEPT !.palettes = p, !.palette_index = ix,
                      !.image = im, !.mode = mo, !.color_count = cc]
     : p \in {Catalogue, << >>}, ix \in PaletteIndexes,
       im \in BOOLEAN, mo \in {None, "palette", "composition"},
       cc \in 1 .. 3}

StyleLists ==
    {<< >>, <<"dots">>, <<"dots", "opposite_circles">>, <<"stripes">>,
     <<"letter_block", "stripes", "half_square">>}

\* --block-styles lists, on grids of at most 2 x 2
StyleArgs ==
    {[BaseArgs EXCEPT !.rows = r, !.cols = c, !.block_styles = st,
                      !.big_block_size = m, !.image = im,
                      !.mode = IF im THEN "composition" ELSE None]
     : r \in 1 .. 2, c \in 1 .. 2, st \in StyleLists,
       m \in {Absent, Given(2)}, im \in BOOLEAN}

Args == GridArgs \cup PaletteArgs \cup StyleArgs

(***************************************************************************)
(* One run.                                                                *)
(***************************************************************************)
NoCall == [fn |-> "none", color_palette |-> << >>,
           result |-> Raised(None, << >>)]

Init ==
    /\ \E args \in Args : run = NewRun(args, 1)
    /\ twin = NewRun(BaseArgs, 2)
    /\ call = NoCall

ParseAndSeed ==
    /\ run.pc = "start"
    /\ run' \in parse_and_seed(run)
    /\ UNCHANGED <<twin, call>>

SelectPalette ==
    /\ run.pc = "select_palette"
    /\ run' \in select_palette(run)
    /\ UNCHANGED <<twin, call>>

CreateSvg ==
    /\ run.pc = "create_svg"
    /\ run' \in create_svg(run)
    /\ UNCHANGED <<twin, call>>

AddBackground ==
    /\ run.pc = "background"
    /\ run' \in add_background(run)
    /\ UNCHANGED <<twin, call>>

GenerateLittleBlock ==
    /\ run.pc = "grid"
    /\ ~composition_mode(run.args)
    /\ run' \in generate_little_block(run)
    /\ UNCHANGED <<twin, call>>

GenerateCompositionBlock ==
    /\ run.pc = "grid"
    /\ composition_mode(run.args)
    /\ run' \in generate_composition_block(run)
    /\ UNCHANGED <<twin, call>>

AddBigBlock ==
    /\ run.pc = "big_block"
    /\ wants_big_block(run.args)
    /\ run' \in add_big_block(run)
    /\ UNCHANGED <<twin, call>>

SkipBigBlock ==
    /\ run.pc = "big_block"
    /\ ~wants_big_block(run.args)
    /\ run' \in skip_big_block(run)
    /\ UNCHANGED <<twin, call>>

Save ==
    /\ run.pc = "save"
    /\ run' \in save(run)
    /\ UNCHANGED <<twin, call>>

Next ==
    \/ ParseAndSeed
    \/ SelectPalette
    \/ CreateSvg
    \/ AddBackground
    \/ GenerateLittleBlock
    \/ GenerateCompositionBlock
    \/ AddBigBlock
    \/ SkipBigBlock
    \/ Save

Spec == Init /\ [][Next]_vars

(***************************************************************************)
(* Two runs of the same command line, stepped together.  The random source *)
(* is a function of its seed and position: two calls of the same function  *)
(* with the same arguments at the same position of the same stream return  *)
(* the same value.                                                         *)
(***************************************************************************)
Step(s) ==
    CASE s.pc = "start" -> parse_and_seed(s)
      [] s.pc = "select_palette" -> select_palette(s)
      [] s.pc = "create_svg" -> create_svg(s)
      [] s.pc = "background" -> add_background(s)
      [] s.pc = "grid" -> IF composition_mode(s.args)
                          THEN generate_composition_block(s)
                          ELSE generate_little_block(s)
      [] s.pc = "big_block" -> IF wants_big_block(s.args)
                               THEN add_big_block(s)
                               ELSE skip_big_block(s)
      [] s.pc = "save" -> save(s)
      [] OTHER -> {}

SameCall(c1, c2) == c1.fn = c2.fn /\ c1.lo = c2.lo /\ c1.hi = c2.hi

Coupled(draws1, draws2) ==
    \A k \in 1 .. Min(Len(draws1), Len(draws2)) :
        SameCall(draws1[k], draws2[k]) => draws1[k].out = draws2[k].out

\* seeded command lines on grids of at most 2 x 2
SeededArgs ==
    {[BaseArgs EXCEPT !.seed = Given(42), !.rows = r, !.cols = c,
                      !.palette_index = ix, !.block_styles = st,
                      !.image = im,
                      !.mode = IF im THEN "composition" ELSE None]
     : r \in 1 .. 2, c \in 1 .. 2, ix \in {Absent, Given(1)},
       st \in {<<"circle">>, <<"dots", "opposite_circles">>},
       im \in BOOLEAN}

\* unseeded command lines on the 1 x 1 grid
UnseededArgs ==
    {[BaseArgs EXCEPT !.rows = 1, !.cols = 1, !.palette_index = ix,
                      !.big_block = bb]
     : ix \in {Absent, Given(0)}, bb \in BOOLEAN}

TwinArgs == SeededArgs \cup UnseededArgs

TwinInit ==
    /\ \E args \in TwinArgs :
          run = NewRun(args, 1) /\ twin = NewRun(args, 2)
    /\ call = NoCall

TwinStep ==
    /\ run' \in Step(run)
    /\ twin' \in Step(twin)
    /\ run.rng = twin.rng => Coupled(run'.draws, twin'.draws)
    /\ UNCHANGED call

RunAlone ==
    /\ Step(twin) = {}
    /\ run' \in Step(run)
    /\ UNCHANGED <<twin, call>>

TwinAlone ==
    /\ Step(run) = {}
    /\ twin' \in Step(twin)
    /\ UNCHANGED <<run, call>>

TwinNext == TwinStep \/ RunAlone \/ TwinAlone

SpecTwin == TwinInit /\ [][TwinNext]_vars

(***************************************************************************)
(* Two seeded runs that differ in the shape of their grids only: the same  *)
(* cell is rendered after different numbers of other cells.                *)
(***************************************************************************)
\* seeded command lines in palette mode without focal block
OrderArgs(r, c, st) ==
    [BaseArgs EXCEPT !.seed = Given(42), !.rows = r, !.cols = c,
                     !.big_block = FALSE, !.block_styles = st]

OrderInit ==
    /\ \E r1 \in 1 .. 2, c1 \in 1 .. 2, r2 \in 1 .. 2, c2 \in 1 .. 2,
          st \in {<<"circle">>, <<"dots", "opposite_circles">>} :
          /\ run = NewRun(OrderArgs(r1, c1, st), 1)
          /\ twin = NewRun(OrderArgs(r2, c2, st), 2)
    /\ call = NoCall

SpecOrder == OrderInit /\ [][TwinNext]_vars

(***************************************************************************)
(* SVG_ArtGrid.py, the first version of the program, next to               *)
(* SVGArtGridV2.py.  Its functions other than parse_args and main have the *)
(* text of their namesakes in SVGArtGridV2.py; its main knows no image.    *)
(* `run` is a run of SVGArtGridV2.py and `twin` a run of SVG_ArtGrid.py on *)
(* the same command line, stepped together on one random source.  Both     *)
(* command lines give --rows and --cols.                                   *)
(***************************************************************************)
\* SVG_ArtGrid.py main: "Load color palettes"
v1_select_palette(s) ==
    LET palettes == s.args.palettes
        picked(idx, draws) ==
            IF list_index_ok(palettes, idx)
            THEN [Consumed(s, draws) EXCEPT
                    !.color_palette = list_get(palettes, idx),
                    !.pc = "create_svg"]
            ELSE Abort(s, "IndexError", draws)
    IN  IF s.args.palette_index # Absent
        THEN {picked(s.args.palette_index[1], << >>)}
        ELSE IF randint(0, Len(palettes) - 1) = {}
        THEN {Abort(s, "ValueError", << >>)}
        ELSE {picked(idx, <<Call("randint", 0, Len(palettes) - 1, idx)>>)
              : idx \in randint(0, Len(palettes) - 1)}

\* (variant: the condition of the other version, inverted)
v1_wants_big_block_in_composition(args) ==
    args.big_block /\ composition_mode(args)

\* SVG_ArtGrid.py main: "if args.big_block:"
v1_wants_big_block(args) == args.big_block

\* SVG_ArtGrid.py main, stage by stage
V1Step(s) ==
    CASE s.pc = "start" -> parse_and_seed(s)
      [] s.pc = "select_palette" -> v1_select_palette(s)
      [] s.pc = "create_svg" -> create_svg(s)
      [] s.pc = "background" -> add_background(s)
      [] s.pc = "grid" -> generate_little_block(s)
      [] s.pc = "big_block" -> IF v1_wants_big_block(s.args)
                               THEN add_big_block(s)
                               ELSE skip_big_block(s)
      [] s.pc = "save" -> save(s)
      [] OTHER -> {}

\* seeded command lines without image, on grids of at most 2 x 2
VersionArgs ==
    {[BaseArgs EXCEPT !.seed = Given(42), !.rows = r, !.cols = c,
                      !.palette_index = ix, !.big_block = bb,
                      !.big_block_size = m, !.block_styles = st]
     : r \in 1 .. 2, c \in 1 .. 2, ix \in {Absent, Given(0), Given(2)},
       bb \in BOOLEAN, m \in {Absent, Given(2)},
       st \in {<<"circle">>, <<"dots", "opposite_circles">>}}

VersionsInit ==
    /\ \E args \in VersionArgs :
          run = NewRun(args, 1) /\ twin = NewRun(args, 2)
    /\ call = NoCall

VersionsStep ==
    /\ run' \in Step(run)
    /\ twin' \in V1Step(twin)
    /\ run.rng = twin.rng => Coupled(run'.draws, twin'.draws)
    /\ UNCHANGED call

VersionsNext == VersionsStep

SpecVersions == VersionsInit /\ [][VersionsNext]_vars

(***************************************************************************)
(* A run, and one stand-alone call get_two_colors(color_palette) on the    *)
(* palette the run has loaded.                                             *)
(***************************************************************************)
TwoColorsInit ==
    /\ \E args \in PaletteArgs : run = NewRun(args, 1)
    /\ twin = NewRun(BaseArgs, 2)
    /\ call = NoCall

TwoColorDraw ==
    /\ run.pc = "create_svg"
    /\ call = NoCall
    /\ \E result \in get_two_colors(run.color_palette) :
          call' = [fn |-> "get_two_colors",
                   color_palette |-> run.color_palette,
                   result |-> result]
    /\ UNCHANGED <<run, twin>>

TwoColorsNext == Next \/ TwoColorDraw

SpecTwoColors == TwoColorsInit /\ [][TwoColorsNext]_vars

(***************************************************************************)
(* Stand-alone calls of the colour functions: sample_image_region and      *)
(* extract_palette_from_image on cluster centres, create_background_colors *)
(* on a palette of two colours.                                            *)
(***************************************************************************)
\* the channels of the cluster centres, in tenths
CentreChannels == {0, 104, 109, 2550}

Centres == {<<r, g, b>> : r \in CentreChannels, g \in CentreChannels,
                          b \in CentreChannels}

\* pairs of palette colours whose first channels take every value of a byte
HexPairs == {<< <<u, 0, 255>>, <<v, 255, 255>> >> : u \in 0 .. 255,
                                                     v \in 0 .. 255}

ColorCall(fn, colors, done, result) ==
    [fn |-> fn, colors |-> colors, done |-> done, result |-> result]

ColorsInit ==
    /\ run = NewRun(BaseArgs, 1)
    /\ twin = NewRun(BaseArgs, 2)
    /\ \/ \E c1 \in Centres, c2 \in Centres :
             \/ call = ColorCall("sample_image_region", <<c1, c2>>, FALSE,
                                 [foreground |-> << >>, background |-> << >>])
             \/ call = ColorCall("extract_palette_from_image", <<c1, c2>>,
                                 FALSE, << >>)
       \/ \E colors \in HexPairs :
             call = ColorCall("create_background_colors", colors, FALSE,
                              << >>)

SampleImageRegion ==
    /\ call.fn = "sample_image_region"
    /\ ~call.done
    /\ call' = [call EXCEPT !.done = TRUE,
                            !.result = region_colors(call.colors)]
    /\ UNCHANGED <<run, twin>>

ExtractPaletteFromImage ==
    /\ call.fn = "extract_palette_from_image"
    /\ ~call.done
    /\ call' = [call EXCEPT !.done = TRUE,
                            !.result = hex_colors(call.colors)]
    /\ UNCHANGED <<run, twin>>

CreateBackgroundColors ==
    /\ call.fn = "create_background_colors"
    /\ ~call.done
    /\ call' = [call EXCEPT
                  !.done = TRUE,
                  !.result = create_background_colors(call.colors).bg]
    /\ UNCHANGED <<run, twin>>

ColorsNext ==
    \/ SampleImageRegion
    \/ ExtractPaletteFromImage
    \/ CreateBackgroundColors

SpecColors == ColorsInit /\ [][ColorsNext]_vars

(***************************************************************************)
(* Properties.                                                             *)
(***************************************************************************)
Last(seq) == seq[Len(seq)]

IsBackground(s, e) == e = Element("rect", 0, 0, s.dwg.width, s.dwg.height)

\* C1: once the focal block is drawn, its origin (x, y) is a multiple of
\* the cell size with 0 <= x <= (rows-m)*cellSize and 0 <= y <=
\* (cols-m)*cellSize, and its m*cellSize square lies inside the grid.
C1_FocalBlockInsideGrid ==
    run.big_blocks > 0 =>
        LET m == run.big_block_size
            g == run.group
            z == run.square_size
        IN  /\ Last(run.dwg.elements) = Element("g", g.x, g.y, g.size, g.size)
            /\ g.size = m * z
            /\ 0 <= g.x /\ g.x <= (run.num_rows - m) * z /\ g.x % z = 0
            /\ 0 <= g.y /\ g.y <= (run.num_cols - m) * z /\ g.y % z = 0
            /\ g.x + g.size <= run.num_rows * z
            /\ g.y + g.size <= run.num_cols * z

C1_Witness ==
    /\ run.big_blocks = 1
    /\ run.big_block_size = 2
    /\ run.num_rows = 3
    /\ run.group.x = run.square_size
    /\ run.group.x + run.group.size = run.num_rows * run.square_size

\* C2: a block drawn from a palette with at least 2 distinct colours has a
\* foreground different from its background.
C2_TwoDifferentColors ==
    (/\ run.group # NoGroup
     /\ ~composition_mode(run.args)
     /\ Cardinality(Range(run.color_palette)) >= 2)
    => run.group.foreground # run.group.background

\* C3: two runs of the same command line with a seed are, once seeded, in
\* equal states after every step: same draws in the same order, same
\* colours, styles, sub-variants, focal multiplier and position.
C3_SeededRunsAgree ==
    run.args.seed # Absent =>
        IF run.pc = "start" THEN twin.pc = "start" ELSE run = twin

C3_Witness ==
    /\ run.args.seed # Absent
    /\ run.pc = "done" /\ twin.pc = "done"
    /\ run.big_blocks = 1
    /\ run.rng.pos >= 17

\* C4 as stated: the declared width is cols*cellSize and the declared
\* height rows*cellSize.
C4_WidthAlongCols ==
    run.dwg.style # "none" =>
        /\ run.dwg.width = run.args.cols * run.args.square_size
        /\ run.dwg.height = run.args.rows * run.args.square_size

\* C4 amended: the declared width is rows*cellSize and the declared height
\* cols*cellSize (the x axis runs along the source's rows).
C4_WidthAlongRows ==
    run.dwg.style # "none" =>
        /\ run.dwg.width = run.args.rows * run.args.square_size
        /\ run.dwg.height = run.args.cols * run.args.square_size

C4_Witness ==
    /\ run.saved
    /\ run.args.rows = 1 /\ run.args.cols = 3 /\ run.args.square_size = 2
    /\ run.dwg.width = 2 /\ run.dwg.height = 6

\* C5: the focal step, with multiplier m in {2, 3}, raises exactly when
\* rows < m or cols < m; otherwise it draws the focal block.
C5_FocalBlockFailsIffTooBig ==
    [][(run.pc = "big_block" /\ wants_big_block(run.args)) =>
        LET m == run'.big_block_size
        IN  /\ m \in {2, 3}
            /\ run'.pc = "aborted" <=>
                    (run.num_rows < m \/ run.num_cols < m)
            /\ run'.pc # "aborted" =>
                    run'.pc = "save" /\ run'.big_blocks = 1]_vars

C5_Witness ==
    /\ run.pc = "aborted" /\ run.err = "ValueError"
    /\ run.num_rows = 2 /\ run.num_cols = 2 /\ run.big_block_size = 3
    /\ Len(run.dwg.elements) = 5

\* the document is complete: background, every cell, focal step done
Complete(s) ==
    /\ s.err = None
    /\ Len(s.dwg.elements) = 1 + s.num_rows * s.num_cols + s.big_blocks
    /\ IsBackground(s, s.dwg.elements[1])
    /\ s.big_blocks = IF wants_big_block(s.args) THEN 1 ELSE 0

\* C6: a run that raised never writes the document and takes no further
\* step; the document is written only when the background, all rows*cols
\* cells and the focal step are complete.
C6_NoPartialDocument ==
    [][/\ run.pc # "aborted"
       /\ run'.pc = "aborted" => ~run'.saved /\ run'.err # None
       /\ run'.saved => Complete(run')
       /\ run'.saved /\ ~run.saved => Complete(run) /\ run.pc = "save"]_vars

C6_Witness ==
    /\ run.pc = "aborted" /\ ~run.saved
    /\ Len(run.dwg.elements) = 1 + run.num_rows * run.num_cols
    /\ run.num_rows * run.num_cols >= 2

\* C7: get_two_colors on a palette of 0 or 1 colours raises, and a run
\* whose palette has fewer than 2 colours never renders a cell.
C7_SmallPaletteFails ==
    /\ (call # NoCall /\ Len(call.color_palette) < 2)
            => call.result.err # None
    /\ Len(run.color_palette) < 2 =>
            \A k \in 1 .. Len(run.dwg.elements) :
                run.dwg.elements[k].tag # "g"

C7_Witness ==
    /\ call # NoCall
    /\ Len(call.color_palette) = 1
    /\ call.result.err = "IndexError"
    /\ run.pc = "aborted"

\* palette selection from the catalogue raised
SelectionFailed(s) == s.pc = "aborted" /\ s.dwg.style = "none"

\* C8: selecting from the catalogue raises if the catalogue is empty or
\* the index is outside 0..len-1 (negative indices included); otherwise
\* the palette is catalogue[index].
C8_IndexOutOfRangeFails ==
    LET a == run.args
    IN  (/\ ~(a.image /\ a.mode = "palette")
         /\ run.pc \notin {"start", "select_palette"})
        => IF \/ Len(a.palettes) = 0
              \/ /\ a.palette_index # Absent
                 /\ a.palette_index[1] \notin 0 .. (Len(a.palettes) - 1)
           THEN SelectionFailed(run)
           ELSE /\ ~SelectionFailed(run)
                /\ a.palette_index # Absent =>
                      run.color_palette = a.palettes[a.palette_index[1] + 1]

\* the stage after `from`
StageOrder(from, to) ==
    \/ from = "start" /\ to = "select_palette"
    \/ from = "select_palette" /\ to = "create_svg"
    \/ from = "create_svg" /\ to = "background"
    \/ from = "background" /\ to = "grid"
    \/ from = "grid" /\ to \in {"grid", "big_block"}
    \/ from = "big_block" /\ to = "save"
    \/ from = "save" /\ to = "done"
    \/ to = "aborted"

\* what the canvas holds at each stage
StageCanvas(s) ==
    LET e == s.dwg.elements
        cells == s.num_rows * s.num_cols
    IN  /\ s.pc \in {"start", "select_palette", "create_svg", "background"}
            => e = << >>
        /\ s.pc = "grid" => Len(e) = 1 + s.i * s.num_cols + s.j
        /\ s.pc = "big_block" => Len(e) = 1 + cells /\ s.big_blocks = 0
        /\ s.pc \in {"save", "done"} => Len(e) = 1 + cells + s.big_blocks
        /\ Len(e) >= 1 => IsBackground(s, e[1])
        /\ \A k \in 2 .. Len(e) :
              /\ e[k].tag = "g"
              /\ IF k <= 1 + cells
                 THEN e[k].width = s.square_size
                 ELSE /\ s.big_blocks = 1
                      /\ k = Len(e)
                      /\ e[k].width = s.big_block_size * s.square_size

\* C9: a run goes through its stages in order, the canvas only grows by
\* appending, its first element is the full-canvas background rectangle,
\* then the rows*cols cell groups, then the focal block's group if any.
C9_StagesInOrder ==
    [][/\ StageOrder(run.pc, run'.pc)
       /\ StageCanvas(run')
       /\ \E k \in 0 .. 1 :
            /\ Len(run'.dwg.elements) = Len(run.dwg.elements) + k
            /\ SubSeq(run'.dwg.elements, 1, Len(run.dwg.elements))
                  = run.dwg.elements]_vars

C9_Witness ==
    /\ run.pc = "done"
    /\ run.big_blocks = 1
    /\ run.num_rows * run.num_cols = 9
    /\ Len(run.dwg.elements) = 11
    /\ Last(run.dwg.elements).width = 3 * run.square_size

\* C10: at most one focal block is drawn, and none when an image is
\* supplied with mode = composition.
C10_AtMostOneFocalBlock ==
    /\ run.big_blocks <= 1
    /\ composition_mode(run.args) => run.big_blocks = 0

C10_Witness ==
    /\ composition_mode(run.args)
    /\ run.args.big_block /\ run.args.big_block_size = Given(3)
    /\ run.num_rows = 3 /\ run.num_cols = 3
    /\ run.pc = "done"
    /\ run.big_blocks = 0

(***************************************************************************)
(* Style selection of the focal block and of the grid cells.               *)
(***************************************************************************)
\* the class_ each draw function gives its group, in the order of style_map
style_classes ==
    <<"draw-circle", "opposite-circles", "draw-cross", "draw-half-square",
      "draw-diagonal-square", "draw-quarter-circle", "draw-dots",
      "draw-letter-block">>

\* the style whose draw function made the group
StyleOf(group) ==
    style_map[CHOOSE k \in 1 .. Len(style_map) :
                  style_classes[k] = group.class]

\* the styles a selection from `registry` under allow-list `block_styles`
\* may return: the intersection, or the registry when that is empty
Selectable(block_styles, registry) ==
    IF Range(block_styles) \cap registry # {}
    THEN Range(block_styles) \cap registry
    ELSE registry

\* C11: whatever the allow-list (with dots, only dots, or without any
\* registry style), the focal block's style is never dots: it is drawn
\* from the allow-list's styles of the dots-free registry, or from that
\* whole registry when there is none.
C11_FocalBlockNeverDots ==
    run.big_blocks > 0 =>
        /\ run.group.class # "draw-dots"
        /\ StyleOf(run.group) # "dots"
        /\ StyleOf(run.group)
               \in Selectable(run.block_styles,
                              Range(style_map) \ {"dots"})

C11_Witness ==
    /\ run.big_blocks = 1
    /\ run.args.block_styles = <<"dots">>
    /\ run.group.class = "draw-cross"
    /\ run.group.size = 2 * run.square_size

\* C12: every grid step, in palette and in composition mode, draws a cell
\* whose style is in the intersection of the allow-list and the registry
\* when that is non-empty and in the full registry of 8 styles otherwise;
\* the step fails only for want of two palette colours.
C12_CellStyleAllowed ==
    [][run.pc = "grid" =>
          IF run'.pc = "aborted"
          THEN /\ ~composition_mode(run.args)
               /\ Len(run.color_palette) < 2
          ELSE /\ Len(run'.dwg.elements) = Len(run.dwg.elements) + 1
               /\ StyleOf(run'.group)
                      \in Selectable(run.block_styles, Range(style_map))]_vars

C12_Witness ==
    /\ composition_mode(run.args)
    /\ run.args.block_styles = <<"stripes">>
    /\ run.pc = "save"
    /\ run.group.class = "draw-dots"

(***************************************************************************)
(* Colours.                                                                *)
(***************************************************************************)
\* C13: for any two cluster centres of distinct brightness
\* (0.299 R + 0.587 G + 0.114 B), in either order, sample_image_region
\* returns the colour of the darker one as foreground and the colour of
\* the lighter one as background.
C13_DarkerIsForeground ==
    call.fn = "sample_image_region" /\ call.done =>
        LET c1 == call.colors[1]
            c2 == call.colors[2]
        IN  /\ brightness(c1) < brightness(c2) =>
                  /\ call.result.foreground = to_hex(c1)
                  /\ call.result.background = to_hex(c2)
            /\ brightness(c2) < brightness(c1) =>
                  /\ call.result.foreground = to_hex(c2)
                  /\ call.result.background = to_hex(c1)

C13_Witness ==
    /\ call.fn = "sample_image_region"
    /\ call.done
    /\ call.colors = << <<0, 2550, 0>>, <<2550, 0, 0>> >>
    /\ call.result.foreground = <<255, 0, 0>>
    /\ call.result.background = <<0, 255, 0>>

\* C14: the 50% mix of a palette's first two colours does not depend on
\* their order, and each of its channels is in 0..255.
C14_MixCommutes ==
    call.fn = "create_background_colors" /\ call.done =>
        /\ call.result
              = create_background_colors(<<call.colors[2],
                                           call.colors[1]>>).bg
        /\ \A k \in 1 .. 3 : call.result[k] \in 0 .. 255

C14_Witness ==
    /\ call.fn = "create_background_colors"
    /\ call.done
    /\ call.colors = << <<0, 0, 255>>, <<255, 255, 255>> >>
    /\ call.result = <<127, 127, 255>>

\* n is the integer nearest to the channel v (in tenths)
Nearest(v, n) == 10 * n - 5 <= v /\ v <= 10 * n + 5

\* n is the integer part of the channel v (in tenths)
IntegerPart(v, n) == 10 * n <= v /\ v < 10 * n + 10

\* every channel of every colour the call returned is the conversion
\* (nearest integer, or integer part) of the same channel of the centre
\* the colour stands for
Emits(nearest) ==
    LET Conv(v, n) == IF nearest THEN Nearest(v, n) ELSE IntegerPart(v, n)
    IN  IF call.fn = "extract_palette_from_image"
        THEN \A n \in 1 .. 2, k \in 1 .. 3 :
                Conv(call.colors[n][k], call.result[n][k])
        ELSE \E n \in 1 .. 2 : \A k \in 1 .. 3 :
                /\ Conv(call.colors[n][k], call.result.foreground[k])
                /\ Conv(call.colors[3 - n][k], call.result.background[k])

\* C15 (as claimed): a centre channel v is emitted as the integer nearest
\* to v (10.9 as 11), in extract_palette_from_image and in
\* sample_image_region.
C15_NearestInteger ==
    call.fn \in {"extract_palette_from_image", "sample_image_region"}
    /\ call.done
    => Emits(TRUE)

\* C15: a centre channel v is emitted as the integer part of v (10.9 as
\* 10), in extract_palette_from_image and in sample_image_region.
C15_IntegerPart ==
    call.fn \in {"extract_palette_from_image", "sample_image_region"}
    /\ call.done
    => Emits(FALSE)

C15_Witness ==
    /\ call.fn = "extract_palette_from_image"
    /\ call.done
    /\ call.colors[1] = <<109, 104, 2550>>
    /\ call.result[1] = <<10, 10, 255>>

(***************************************************************************)
(* The primitives of the blocks.                                           *)
(***************************************************************************)
\* a finished run on a 1 x 1 grid, without focal block, in palette mode,
\* with the style restricted to circle and a palette of distinct colours
CircleScenario ==
    /\ run.pc = "done"
    /\ run.num_rows = 1 /\ run.num_cols = 1
    /\ ~run.args.big_block
    /\ ~run.args.image
    /\ run.block_styles = <<"circle">>
    /\ \A m, n \in 1 .. Len(run.color_palette) :
          m # n => run.color_palette[m] # run.color_palette[n]

\* the document holds the background and one cell at (0, 0), whose group
\* starts with a rect over the cell in a palette colour, followed by a
\* circle at the centre of the cell, of radius cellSize / 2, in another
\* palette colour
OneCircleCell ==
    LET z == run.square_size
        g == run.group
    IN  /\ Len(run.dwg.elements) = 2
        /\ run.dwg.elements[2] = Element("g", 0, 0, z, z)
        /\ g.class = "draw-circle" /\ g.x = 0 /\ g.y = 0 /\ g.size = z
        /\ Len(g.prims) >= 2
        /\ g.prims[1].shape = "rect"
        /\ g.prims[1].geom = <<0, 0, Unit * z, Unit * z>>
        /\ g.prims[1].fill \in Range(run.color_palette)
        /\ g.prims[2].shape = "circle"
        /\ \A k \in 1 .. 3 : 2 * g.prims[2].geom[k] = Unit * z
        /\ g.prims[2].fill \in Range(run.color_palette)
        /\ g.prims[2].fill # g.prims[1].fill

\* C16 (as claimed): in the circle scenario the cell's group holds exactly
\* the background rect and exactly one circle, for every outcome of the
\* draws.
C16_ExactlyOneCircle ==
    CircleScenario => OneCircleCell /\ Len(run.group.prims) = 2

\* C16: in the circle scenario the cell's group holds the background rect,
\* the centred circle of radius cellSize / 2 in another palette colour
\* and, for some outcomes of the draws, one more circle with the same
\* centre, of radius cellSize / 4, in the colour of the rect.
C16_CircleWithOptionalRing ==
    CircleScenario =>
        /\ OneCircleCell
        /\ Len(run.group.prims) \in {2, 3}
        /\ Len(run.group.prims) = 3 =>
              LET ring == run.group.prims[3]
              IN  /\ ring.shape = "circle"
                  /\ ring.geom[1] = run.group.prims[2].geom[1]
                  /\ ring.geom[2] = run.group.prims[2].geom[2]
                  /\ 4 * ring.geom[3] = Unit * run.square_size
                  /\ ring.fill = run.group.prims[1].fill

C16_Witness ==
    /\ CircleScenario
    /\ run.square_size = 2
    /\ Len(run.group.prims) = 3
    /\ run.group.prims[1].fill = Green
    /\ run.group.prims[2].fill = Red

\* C17: whatever the style and its sub-variant, the first primitive of the
\* latest block's group is a rect at (x, y) of size (size, size) in the
\* background colour, and every later primitive is in the foreground
\* colour, except the third primitive of a circle block (its inner ring).
C17_BackgroundRectFirst ==
    run.group # NoGroup =>
        LET g == run.group
        IN  /\ g.class \in Range(style_classes)
            /\ Len(g.prims) >= 2
            /\ g.prims[1] = Prim("rect", g.background,
                                 <<Unit * g.x, Unit * g.y,
                                   Unit * g.size, Unit * g.size>>,
                                 << >>, << >>)
            /\ \A k \in 2 .. Len(g.prims) :
                  \/ g.prims[k].fill = g.foreground
                  \/ /\ g.class = "draw-circle"
                     /\ k = 3
                     /\ g.prims[k].shape = "circle"
                     /\ g.prims[k].fill = g.background

C17_Witness ==
    /\ run.group.class = "draw-dots"
    /\ run.group.variant = "16"
    /\ Len(run.group.prims) = 17
    /\ run.group.foreground # run.group.background
    /\ run.group.prims[17].fill = run.group.foreground

\* the corners of the cell of a group, in 1/Unit of a pixel
Corner(g, name) ==
    CASE name = "top-left" -> <<Unit * g.x, Unit * g.y>>
      [] name = "top-right" -> <<Unit * (g.x + g.size), Unit * g.y>>
      [] name = "bottom-right" ->
            <<Unit * (g.x + g.size), Unit * (g.y + g.size)>>
      [] name = "bottom-left" -> <<Unit * g.x, Unit * (g.y + g.size)>>

\* the corner the arc of a quarter-circle variant is claimed to end at
AdjacentCorner(name) ==
    CASE name = "top-left" -> "top-right"
      [] name = "top-right" -> "bottom-right"
      [] name = "bottom-right" -> "bottom-left"
      [] name = "bottom-left" -> "top-left"

\* C18 (as claimed): the path of a quarter-circle block starts at the
\* chosen corner, arcs with both radii equal to the cell size to the
\* adjacent corner and closes back to the start; the arc spans 90 degrees:
\* the squared distance between its endpoints is twice the squared radius.
C18_QuarterArc ==
    run.group.class = "draw-quarter-circle" =>
        LET g == run.group
            p == g.prims[2].geom
        IN  /\ g.prims[2].shape = "path"
            /\ <<p[1], p[2]>> = Corner(g, g.variant)
            /\ p[3] = Unit * g.size /\ p[4] = Unit * g.size
            /\ <<p[8], p[9]>> = Corner(g, AdjacentCorner(g.variant))
            /\ <<p[10], p[11]>> = <<p[1], p[2]>>
            /\ (p[8] - p[1]) * (p[8] - p[1]) + (p[9] - p[2]) * (p[9] - p[2])
                  = 2 * p[3] * p[3]

\* the vertices of a polygon
Vertices(points) ==
    {<<points[2 * k - 1], points[2 * k]>> : k \in 1 .. Len(points) \div 2}

\* the diagonal of the cell that is a side of the triangle `points`
Hypotenuse(g, points) ==
    IF {Corner(g, "top-left"), Corner(g, "bottom-right")}
          \subseteq Vertices(points)
    THEN "top-left-to-bottom-right"
    ELSE IF {Corner(g, "top-right"), Corner(g, "bottom-left")}
               \subseteq Vertices(points)
    THEN "top-right-to-bottom-left"
    ELSE "none"

\* C19 (as claimed): the triangle of a diagonal-square block has three
\* corners of the cell as vertices, and its hypotenuse is one diagonal of
\* the cell while the triangle of the other sub-variant has the other
\* diagonal as hypotenuse.
C19_TwoDiagonals ==
    run.group.class = "draw-diagonal-square" =>
        LET g == run.group
            this == g.prims[2].geom
            other == diagonal_points(
                        g.x, g.y, g.size,
                        g.variant # "top-left-to-bottom-right")
            corners == {Corner(g, c) : c \in {"top-left", "top-right",
                                              "bottom-right", "bottom-left"}}
        IN  /\ Cardinality(Vertices(this)) = 3
            /\ Vertices(this) \subseteq corners
            /\ Hypotenuse(g, this) # "none"
            /\ Hypotenuse(g, other) # "none"
            /\ Hypotenuse(g, this) # Hypotenuse(g, other)

(***************************************************************************)
(* The grid.                                                               *)
(***************************************************************************)
\* the number of cells in the document
CellsDrawn(s) == Len(s.dwg.elements) - 1 - s.big_blocks

\* the element of the k-th cell drawn
CellElement(s, k) == s.dwg.elements[1 + k]

\* two boxes share no interior point
Apart(e, f) ==
    \/ e.x + e.width <= f.x \/ f.x + f.width <= e.x
    \/ e.y + e.height <= f.y \/ f.y + f.height <= e.y

\* C20: the grid loops render the positions (i, j), 0 <= i < rows,
\* 0 <= j < cols, once each, at (i*cellSize, j*cellSize) with size
\* cellSize; the cells' boxes do not overlap one another and lie inside
\* the declared canvas; in composition mode the region sampled for a cell
\* is the cell's box and lies inside the resized image.
C20_CellsTileCanvas ==
    run.pc \in {"grid", "big_block", "save", "done"} =>
        LET z == run.square_size
            n == CellsDrawn(run)
        IN  /\ run.pc = "grid" => n = run.i * run.num_cols + run.j
            /\ run.pc # "grid" => n = run.num_rows * run.num_cols
            /\ \A k \in 1 .. n :
                  /\ CellElement(run, k)
                        = Element("g", ((k - 1) \div run.num_cols) * z,
                                  ((k - 1) % run.num_cols) * z, z, z)
                  /\ 0 <= CellElement(run, k).x
                  /\ CellElement(run, k).x + z <= run.dwg.width
                  /\ 0 <= CellElement(run, k).y
                  /\ CellElement(run, k).y + z <= run.dwg.height
            /\ \A k, l \in 1 .. n :
                  k # l => Apart(CellElement(run, k), CellElement(run, l))
            /\ composition_mode(run.args) /\ n > 0 =>
                  /\ run.region = <<CellElement(run, n).x,
                                    CellElement(run, n).y,
                                    CellElement(run, n).x + z,
                                    CellElement(run, n).y + z>>
                  /\ 0 <= run.region[1] /\ run.region[1] < run.region[3]
                  /\ run.region[3] <= run.img.width
                  /\ 0 <= run.region[2] /\ run.region[2] < run.region[4]
                  /\ run.region[4] <= run.img.height

C20_Witness ==
    /\ run.pc = "done"
    /\ composition_mode(run.args)
    /\ run.num_rows = 2 /\ run.num_cols = 3 /\ run.square_size = 2
    /\ CellsDrawn(run) = 6
    /\ run.img = [width |-> 4, height |-> 6]
    /\ run.region = <<2, 4, 4, 6>>

(***************************************************************************)
(* What a cell shares with the other cells.                                *)
(***************************************************************************)
\* the colours, style and sub-variant of a block
Outcome(g) == <<g.foreground, g.background, g.class, g.variant>>

\* the latest block of the run is a grid cell
IsCell(s) == s.group # NoGroup /\ s.big_blocks = 0

\* the step from s to t renders a cell
CellStep(s, t) == s.pc = "grid" /\ t.pc # "aborted" /\ t # s

\* what a cell step reads and writes: palette, allow-list and geometry
\* are left alone, one element is appended to the canvas, whose earlier
\* elements and masks stay, and the random source advances by the draws
\* made
CellFrame(s, t) ==
    /\ t.color_palette = s.color_palette
    /\ t.block_styles = s.block_styles
    /\ t.args = s.args
    /\ <<t.num_rows, t.num_cols, t.square_size>>
          = <<s.num_rows, s.num_cols, s.square_size>>
    /\ Len(t.dwg.elements) = Len(s.dwg.elements) + 1
    /\ SubSeq(t.dwg.elements, 1, Len(s.dwg.elements)) = s.dwg.elements
    /\ Len(t.dwg.masks) >= Len(s.dwg.masks)
    /\ SubSeq(t.dwg.masks, 1, Len(s.dwg.masks)) = s.dwg.masks
    /\ t.rng.stream = s.rng.stream
    /\ Len(t.draws) >= 1
    /\ t.rng.pos = s.rng.pos + Len(t.draws)

\* C21 (as claimed): the colours, style and sub-variant of the cell at a
\* position are the same in two runs of one seed, palette and allow-list,
\* whatever other cells each run has rendered before it.
C21_CellIndependentOfOthers ==
    /\ IsCell(run) /\ IsCell(twin)
    /\ run.group.x = twin.group.x /\ run.group.y = twin.group.y
    => Outcome(run.group) = Outcome(twin.group)

\* C21: a cell step leaves palette, allow-list and geometry alone, appends
\* one element to the canvas and advances the process-wide random source;
\* two cell steps from the same state of that source give the same
\* colours, style and sub-variant, whatever their positions and whatever
\* has been rendered before.
C21_CellSharesRandomSourceOnly ==
    [][/\ CellStep(run, run') => CellFrame(run, run')
       /\ CellStep(twin, twin') => CellFrame(twin, twin')
       /\ (CellStep(run, run') /\ CellStep(twin, twin')
           /\ run.rng = twin.rng)
          => Outcome(run'.group) = Outcome(twin'.group)]_vars

C21_Witness ==
    /\ IsCell(run) /\ IsCell(twin)
    /\ run.args.rows = 2 /\ run.args.cols = 1
    /\ twin.args.rows = 1 /\ twin.args.cols = 2
    /\ run.group.x = 1 /\ run.group.y = 0
    /\ twin.group.x = 0 /\ twin.group.y = 1
    /\ run.rng = twin.rng
    /\ run.rng.pos = 8
    /\ Outcome(run.group) = Outcome(twin.group)
    /\ run.group.class = "opposite-circles"

(***************************************************************************)
(* The palette.                                                            *)
(***************************************************************************)
\* C22: once loaded, the palette keeps its entries and their order through
\* every later step: the get_two_colors calls of the cells and of the
\* focal block remove the background colour from a copy only.
C22_PaletteReadOnly ==
    [][run.pc \notin {"start", "select_palette"}
          => run'.color_palette = run.color_palette]_vars

C22_Witness ==
    /\ run.pc = "done"
    /\ run.num_rows * run.num_cols = 4
    /\ run.big_blocks = 1
    /\ run.args.palette_index = Given(1)
    /\ run.color_palette = Catalogue[2]
    /\ Len(run.color_palette) = 3

(***************************************************************************)
(* The masks of the opposite-circles blocks.                               *)
(***************************************************************************)
\* the mask a reference url(#id) resolves to: the first one of that id in
\* the document
MaskOf(masks, id) ==
    masks[CHOOSE m \in 1 .. Len(masks) :
              /\ masks[m].id = id
              /\ \A n \in 1 .. (m - 1) : masks[n].id # id]

\* C23 (as claimed): the ids of the masks registered in the document's
\* defs are pairwise distinct, and the mask the latest opposite-circles
\* block (cell or focal block) refers to covers exactly the bounds
\* (x, y, size) of that block.
C23_MaskIdsDistinct ==
    /\ \A m, n \in 1 .. Len(run.dwg.masks) :
          m # n => run.dwg.masks[m].id # run.dwg.masks[n].id
    /\ run.group.class = "opposite-circles" =>
          LET g == run.group
              mask == MaskOf(run.dwg.masks, g.prims[2].attr)
          IN  /\ g.prims[2].attr = mask_id(g.x, g.y)
              /\ <<mask.x, mask.y, mask.size>> = <<g.x, g.y, g.size>>

(***************************************************************************)
(* The two versions of the program.                                        *)
(***************************************************************************)
\* C24: on a command line without image that gives rows, cols and a seed,
\* SVGArtGridV2.py and SVG_ArtGrid.py are at the same stage after every
\* step, have made the same random draws from the same position of the
\* source, hold the same canvas (size, gradient, masks, elements, in
\* order) and the same latest group of primitives, and fail alike.
C24_V2RefinesV1 ==
    run.pc # "start" =>
        /\ run.pc = twin.pc
        /\ run.err = twin.err
        /\ run.rng = twin.rng
        /\ run.draws = twin.draws
        /\ run.color_palette = twin.color_palette
        /\ run.dwg = twin.dwg
        /\ run.group = twin.group
        /\ run.saved = twin.saved

C24_Witness ==
    /\ run.pc = "done" /\ twin.pc = "done"
    /\ ~run.args.image
    /\ run.args.palette_index = Absent
    /\ Len(twin.dwg.elements) = 6
    /\ twin.big_blocks = 1
    /\ twin.group.class = "opposite-circles"
    /\ Len(twin.dwg.masks) >= 2
    /\ run.dwg = twin.dwg
====
